---- MODULE Spec2Model ----
(***************************************************************************)
(* Model of example/tutorial/Algorithms/01_random_numbers/                 *)
(* random_numbers.cpp: the benchmark driver (main) and the parallel fill   *)
(* functor generate_random<GeneratorPool>::operator()(int i).              *)
(*                                                                         *)
(* The driver's program counter is named after the source line it is       *)
(* about to execute ("L86" ... "L140").  The generator pools, the parallel *)
(* dispatch and the fence belong to the Kokkos library (Kokkos_Random.hpp, *)
(* Kokkos_Core.hpp), which is not part of the example file; they are       *)
(* modelled from the example's own comment (lines 44-51) and from the      *)
(* specification's description of acquire/release, fan-out and fence.      *)
(***************************************************************************)
EXTENDS Integers, Sequences, FiniteSets, TLC

\* ------------------------------------------------------------------ bounds
MaxSize == 2        \* largest row count given on the command line
MaxSamples == 1     \* largest sample count given on the command line
MaxArgc == 4        \* largest argument count tried
NumLanes == 2       \* simultaneously running threads / lanes
RandMod == 2        \* size of the (abstracted) generator value space

\* ------------------------------------------------------- program constants
Seed == 5374857     \* literal seed of both pools
WarmUps == 5        \* iterations of the warm-up loop
ArgcWanted == 3     \* argument count of the computing path

Pools == {"pool64", "pool1024"}
Backends == {"Cuda", "OpenMP"}
Lanes == 1..NumLanes

\* The pool holds one state per potentially simultaneously running thread.
PoolSize == NumLanes
States == 0..(PoolSize - 1)

\* --------------------------------------------------- command-line tokens
DigitChars == {"0", "1", "2", "3", "4", "5", "6", "7", "8", "9"}
DigitVal(c) ==
    CASE c = "0" -> 0 [] c = "1" -> 1 [] c = "2" -> 2 [] c = "3" -> 3
      [] c = "4" -> 4 [] c = "5" -> 5 [] c = "6" -> 6 [] c = "7" -> 7
      [] c = "8" -> 8 [] c = "9" -> 9
DigitChar(n) ==
    CASE n = 0 -> "0" [] n = 1 -> "1" [] n = 2 -> "2" [] n = 3 -> "3"
      [] n = 4 -> "4" [] n = 5 -> "5" [] n = 6 -> "6" [] n = 7 -> "7"
      [] n = 8 -> "8" [] n = 9 -> "9"

\* Argument strings tried: the decimal numerals 0..max (one digit each), a
\* string with no leading digit and, for the first argument, a numeral
\* followed by a letter.  Negative and out-of-int-range numerals are
\* outside the bounds.
NumTokens(max) == {<<DigitChar(n)>> : n \in 0..max}
SizeTokens == NumTokens(MaxSize) \cup {<<"x">>, <<"1", "x">>}
SamplesTokens == NumTokens(MaxSamples) \cup {<<"x">>}
ExtraTokens == {<<"x">>}

RECURSIVE ParseDigits(_, _, _)
ParseDigits(tok, pos, acc) ==
    IF pos <= Len(tok) /\ tok[pos] \in DigitChars
    THEN ParseDigits(tok, pos + 1, 10 * acc + DigitVal(tok[pos]))
    ELSE [val |-> acc, next |-> pos]

\* std::stoi: converts the longest leading run of digits and ignores what
\* follows; throws std::invalid_argument when there is no leading digit.
stoi(tok) ==
    LET r == ParseDigits(tok, 1, 0)
    IN  IF r.next = 1 THEN [ok |-> FALSE, val |-> 0]
        ELSE [ok |-> TRUE, val |-> r.val]

\* ------------------------------------------------- generators (abstracted)
\* One step of the generator of each pool variant, on a value space of
\* RandMod values.  normal() advances the generator and returns a value
\* that is a function of the new state.
NextState(p, s) ==
    IF p = "pool64" THEN (s + 1) % RandMod ELSE (s + 2) % RandMod

normal(p, s) == [val |-> NextState(p, s), s |-> NextState(p, s)]

\* The pool constructor fills the states from one XorShift64 generator
\* started at the seed: state i is the (i+1)-th draw.
RECURSIVE SeedDraw(_, _)
SeedDraw(s, n) == IF n = 0 THEN s ELSE SeedDraw(NextState("pool64", s), n - 1)

NewPool(seed) ==
    [made |-> TRUE,
     st   |-> [x \in States |-> SeedDraw(seed % RandMod, x + 1)],
     lock |-> [x \in States |-> 0]]

NoPool == [made |-> FALSE, st |-> [x \in States |-> 0], lock |-> [x \in States |-> 0]]

VARIABLES
    argc, args,      \* the command line (args[1], args[2], ...)
    backend,         \* the execution space the example is built for
    pc,              \* source line main is about to execute
    runtime,         \* "none", "initialized", "finalized"
    out,             \* lines written to standard output
    hist,            \* runtime calls made by main, in order
    size, samples,   \* the parsed arguments
    pools,           \* rand_pool64 and rand_pool1024
    vals, vals_life, \* the output view and its lifetime
    wi,              \* the warm-up loop counter i
    cur_pool,        \* the pool of the functor of the latest launch
    items,           \* the work items of the latest launch
    wlog,            \* who wrote each cell during the latest launch
    timer,           \* position in hist of the timer's last (re)start
    time_64, time_1024,
    first_vals       \* determinism scenario: the output of the first fill

vars == <<argc, args, backend, pc, runtime, out, hist, size, samples, pools,
          vals, vals_life, wi, cur_pool, items, wlog, timer, time_64,
          time_1024, first_vals>>

Rows == 0..(size - 1)
Cols == 0..(samples - 1)
Cells == Rows \X Cols
NoTime == [from |-> 0, to |-> 0, set |-> FALSE]
\* A work item: its position in operator(), the loop variable k, rand_gen
\* (idx, s), the lane it runs on, and a record of its pool calls: the
\* index get_state returned, the numbers of get_state and free_state
\* calls, and whether free_state released the index that was acquired.
NoItem == [pc |-> "pending", k |-> 0, idx |-> 0, s |-> 0, lane |-> 0,
           got |-> 0, nacq |-> 0, nrel |-> 0, same |-> TRUE]

ArgSeqs(n) ==
    {a \in [1..(n - 1) -> SizeTokens \cup SamplesTokens \cup ExtraTokens] :
        /\ n > 1 => a[1] \in SizeTokens
        /\ n > 2 => a[2] \in SamplesTokens
        /\ \A j \in 3..(n - 1) : a[j] \in ExtraTokens}

Init ==
    /\ argc \in 1..MaxArgc
    /\ args \in ArgSeqs(argc)
    /\ backend \in Backends
    /\ pc = "L86"
    /\ runtime = "none"
    /\ out = <<>>
    /\ hist = <<>>
    /\ size = 0
    /\ samples = 0
    /\ pools = [p \in Pools |-> NoPool]
    /\ vals = <<>>
    /\ vals_life = "none"
    /\ wi = 0
    /\ cur_pool = "pool64"
    /\ items = <<>>
    /\ wlog = <<>>
    /\ timer = 0
    /\ time_64 = NoTime
    /\ time_1024 = NoTime
    /\ first_vals = <<>>

\* ---------------------------------------------------------------- main
\* hist records main's calls into the runtime: the call and, for a pool's
\* construction and for a launch, the pool.
Event(ev, p) == [ev |-> ev, pool |-> p]
Emit(ev) == hist' = Append(hist, Event(ev, "none"))
EmitPool(ev, p) == hist' = Append(hist, Event(ev, p))

\* Line 86: Kokkos::initialize(argc, args).
Initialize ==
    /\ pc = "L86"
    /\ runtime' = "initialized"
    /\ Emit("initialize")
    /\ pc' = "L87"
    /\ UNCHANGED <<argc, args, backend, out, size, samples, pools, vals,
                   vals_life, wi, cur_pool, items, wlog, timer, time_64,
                   time_1024, first_vals>>

\* Mutation: only too few arguments are refused.
WrongArgcTooFew(n) == n < ArgcWanted

\* Line 87: the computing path is taken only with exactly two arguments.
WrongArgc(n) == n # ArgcWanted

\* Lines 87-88: if (argc != 3) printf(usage) and fall through to finalize.
CheckArgc ==
    /\ pc = "L87"
    /\ IF WrongArgc(argc)
       THEN /\ out' = Append(out, "usage")
            /\ pc' = "L139"
       ELSE /\ out' = out
            /\ pc' = "L90"
    /\ UNCHANGED <<argc, args, backend, runtime, hist, size, samples, pools,
                   vals, vals_life, wi, cur_pool, items, wlog, timer,
                   time_64, time_1024, first_vals>>

\* Line 90: print the execution space's name.
PrintExecSpace ==
    /\ pc = "L90"
    /\ out' = Append(out, "exec_space")
    /\ pc' = "L93"
    /\ UNCHANGED <<argc, args, backend, runtime, hist, size, samples, pools,
                   vals, vals_life, wi, cur_pool, items, wlog, timer,
                   time_64, time_1024, first_vals>>

\* Lines 93-94: size = std::stoi(args[1]); samples = std::stoi(args[2]).
\* A std::invalid_argument thrown by stoi is caught nowhere: the program
\* ends in std::terminate and executes nothing after the throwing line.
ParseArgs ==
    /\ pc \in {"L93", "L94"}
    /\ LET r == stoi(args[IF pc = "L93" THEN 1 ELSE 2])
       IN  IF r.ok
           THEN /\ size' = IF pc = "L93" THEN r.val ELSE size
                /\ samples' = IF pc = "L94" THEN r.val ELSE samples
                /\ pc' = IF pc = "L93" THEN "L94" ELSE "L100"
           ELSE /\ pc' = "terminate"
                /\ UNCHANGED <<size, samples>>
    /\ UNCHANGED <<argc, args, backend, runtime, out, hist, pools, vals,
                   vals_life, wi, cur_pool, items, wlog, timer, time_64,
                   time_1024, first_vals>>

\* Lines 100-101: construct rand_pool64, then rand_pool1024, from the seed.
MakePool ==
    /\ pc \in {"L100", "L101"}
    /\ LET p == IF pc = "L100" THEN "pool64" ELSE "pool1024"
       IN  /\ pools' = [pools EXCEPT ![p] = NewPool(Seed)]
           /\ EmitPool("construct", p)
    /\ pc' = IF pc = "L100" THEN "L101" ELSE "L102"
    /\ UNCHANGED <<argc, args, backend, runtime, out, size, samples, vals,
                   vals_life, wi, cur_pool, items, wlog, timer, time_64,
                   time_1024, first_vals>>

\* Lines 102-103: ViewType vals("Vals", size, samples), zero-initialised;
\* the range policy over [0, size) has no state of its own.
AllocVals ==
    /\ pc = "L102"
    /\ vals' = [c \in Cells |-> 0]
    /\ vals_life' = "live"
    /\ Emit("allocate")
    /\ pc' = "L106"
    /\ UNCHANGED <<argc, args, backend, runtime, out, size, samples, pools,
                   wi, cur_pool, items, wlog, timer, time_64, time_1024,
                   first_vals>>

\* Lines 106-107: the timer starts at its construction; int i = 0.
TimerCtor ==
    /\ pc = "L106"
    /\ timer' = Len(hist) + 1
    /\ Emit("timer_start")
    /\ wi' = 0
    /\ pc' = "L107"
    /\ UNCHANGED <<argc, args, backend, runtime, out, size, samples, pools,
                   vals, vals_life, cur_pool, items, wlog, time_64,
                   time_1024, first_vals>>

\* Mutation: one warm-up fewer.
WarmTestShort(i) == i < WarmUps - 1

\* Line 107: the warm-up loop's test i < 5.
WarmTest(i) == i < WarmUps

WarmLoop ==
    /\ pc = "L107"
    /\ pc' = IF WarmTest(wi) THEN "L108" ELSE "L114"
    /\ UNCHANGED <<argc, args, backend, runtime, out, hist, size, samples,
                   pools, vals, vals_life, wi, cur_pool, items, wlog, timer,
                   time_64, time_1024, first_vals>>

\* The pool each parallel_for of main hands to its functor.
LaunchPool(l) ==
    CASE l = "L108" -> "pool64"
      [] l = "L115" -> "pool64"
      [] l = "L122" -> "pool1024"
      [] l = "L128" -> "pool1024"

LaunchLines == {"L108", "L115", "L122", "L128"}
FenceLines == {"L111", "L118", "L125", "L131"}
ReadLines == {"L119", "L132"}

\* Mutation: the fence of line 118 is left out.
AfterLaunchNoFence(l) ==
    CASE l = "L108" -> "L111"
      [] l = "L115" -> "L119"
      [] l = "L122" -> "L125"
      [] l = "L128" -> "L131"

\* The statement that follows each launch, and the one after each fence.
AfterLaunch(l) ==
    CASE l = "L108" -> "L111"
      [] l = "L115" -> "L118"
      [] l = "L122" -> "L125"
      [] l = "L128" -> "L131"

AfterFence(l) ==
    CASE l = "L111" -> "L107"
      [] l = "L118" -> "L119"
      [] l = "L125" -> "L127"
      [] l = "L131" -> "L132"

\* parallel_for(policy, generate_random<Pool>(vals, pool, samples)): one
\* work item per index of [0, size), none started yet; returns at once.
StartFill(p) ==
    /\ cur_pool' = p
    /\ items' = [i \in Rows |-> NoItem]
    /\ wlog' = [c \in Cells |-> {}]

\* Lines 108, 115, 122, 128.
Launch ==
    /\ pc \in LaunchLines
    /\ StartFill(LaunchPool(pc))
    /\ EmitPool("launch", LaunchPool(pc))
    /\ pc' = AfterLaunch(pc)
    /\ UNCHANGED <<argc, args, backend, runtime, out, size, samples, pools,
                   vals, vals_life, wi, timer, time_64, time_1024,
                   first_vals>>

\* Kokkos::fence() returns once every launched work item has completed.
FenceReturns == \A i \in DOMAIN items : items[i].pc = "done"

\* Lines 111, 118, 125, 131; line 107's i++ follows the loop's fence.
Fence ==
    /\ pc \in FenceLines
    /\ FenceReturns
    /\ Emit("fence")
    /\ wi' = IF pc = "L111" THEN wi + 1 ELSE wi
    /\ pc' = AfterFence(pc)
    /\ UNCHANGED <<argc, args, backend, runtime, out, size, samples, pools,
                   vals, vals_life, cur_pool, items, wlog, timer, time_64,
                   time_1024, first_vals>>

\* Mutation: the timer is not reset.
TimerResetMissing ==
    /\ pc \in {"L114", "L127"}
    /\ pc' = IF pc = "L114" THEN "L115" ELSE "L128"
    /\ UNCHANGED <<argc, args, backend, runtime, out, hist, size, samples,
                   pools, vals, vals_life, wi, cur_pool, items, wlog, timer,
                   time_64, time_1024, first_vals>>

\* Lines 114, 127: timer.reset().
TimerReset ==
    /\ pc \in {"L114", "L127"}
    /\ timer' = Len(hist) + 1
    /\ Emit("reset")
    /\ pc' = IF pc = "L114" THEN "L115" ELSE "L128"
    /\ UNCHANGED <<argc, args, backend, runtime, out, size, samples, pools,
                   vals, vals_life, wi, cur_pool, items, wlog, time_64,
                   time_1024, first_vals>>

\* Mutation: time_64 is printed as soon as it is read.
TimerReadAndPrint ==
    /\ pc \in ReadLines
    /\ LET t == [from |-> timer, to |-> Len(hist) + 1, set |-> TRUE]
       IN  /\ time_64' = IF pc = "L119" THEN t ELSE time_64
           /\ time_1024' = IF pc = "L132" THEN t ELSE time_1024
    /\ Emit("read")
    /\ out' = IF pc = "L119" THEN Append(out, "time_64") ELSE out
    /\ pc' = IF pc = "L119" THEN "L122" ELSE "L135"
    /\ UNCHANGED <<argc, args, backend, runtime, size, samples, pools,
                   vals, vals_life, wi, cur_pool, items, wlog, timer,
                   first_vals>>

\* Lines 119, 132: time_64 / time_1024 = timer.seconds(): the stretch of
\* hist between the timer's last (re)start and this read.
TimerRead ==
    /\ pc \in ReadLines
    /\ LET t == [from |-> timer, to |-> Len(hist) + 1, set |-> TRUE]
       IN  /\ time_64' = IF pc = "L119" THEN t ELSE time_64
           /\ time_1024' = IF pc = "L132" THEN t ELSE time_1024
    /\ Emit("read")
    /\ pc' = IF pc = "L119" THEN "L122" ELSE "L134"
    /\ UNCHANGED <<argc, args, backend, runtime, out, size, samples, pools,
                   vals, vals_life, wi, cur_pool, items, wlog, timer,
                   first_vals>>

\* Lines 134-135: print the two times.
PrintTimes ==
    /\ pc \in {"L134", "L135"}
    /\ out' = Append(out, IF pc = "L134" THEN "time_64" ELSE "time_1024")
    /\ pc' = IF pc = "L134" THEN "L135" ELSE "L138"
    /\ UNCHANGED <<argc, args, backend, runtime, hist, size, samples, pools,
                   vals, vals_life, wi, cur_pool, items, wlog, timer,
                   time_64, time_1024, first_vals>>

\* Mutation: vals and the pools outlive the else block.
ScopeEndKeeps ==
    /\ pc = "L138"
    /\ pc' = "L139"
    /\ UNCHANGED <<argc, args, backend, runtime, out, hist, size, samples,
                   pools, vals, vals_life, wi, cur_pool, items, wlog, timer,
                   time_64, time_1024, first_vals>>

\* Line 138: the else block ends; vals and both pools are destroyed.
ScopeEnd ==
    /\ pc = "L138"
    /\ vals_life' = "destroyed"
    /\ pools' = [p \in Pools |-> [pools[p] EXCEPT !.made = FALSE]]
    /\ Emit("destroy")
    /\ pc' = "L139"
    /\ UNCHANGED <<argc, args, backend, runtime, out, size, samples, vals,
                   wi, cur_pool, items, wlog, timer, time_64, time_1024,
                   first_vals>>

\* Lines 139-140: Kokkos::finalize(); return 0.
Finalize ==
    /\ pc = "L139"
    /\ runtime' = "finalized"
    /\ Emit("finalize")
    /\ pc' = "L140"
    /\ UNCHANGED <<argc, args, backend, out, size, samples, pools, vals,
                   vals_life, wi, cur_pool, items, wlog, timer, time_64,
                   time_1024, first_vals>>

\* ------------------------------------------------------- the fill functor
Running(i) == items[i].pc \in {"loop", "free_state"}
LaneFree(l) == \A j \in DOMAIN items : ~(Running(j) /\ items[j].lane = l)
FreeLanes == {l \in Lanes : LaneFree(l)}

\* OpenMP's static schedule: contiguous chunks of ceil(size / threads)
\* indices, one chunk per thread.
Chunk == (size + NumLanes - 1) \div NumLanes
ThreadOf(i) == (i \div Chunk) + 1

\* The thread or lane that may pick up index i now.  OpenMP: the index's
\* own thread, once the lower indices of its chunk are done.  Cuda: a free
\* lane (lanes are interchangeable, the lowest free one is taken).
LanesFor(i) ==
    IF backend = "OpenMP"
    THEN {l \in FreeLanes :
            /\ l = ThreadOf(i)
            /\ \A j \in DOMAIN items :
                  (j < i /\ ThreadOf(j) = l) => items[j].pc = "done"}
    ELSE {l \in FreeLanes : \A m \in FreeLanes : l <= m}

\* The states get_state may hand out to the caller on lane l.  Cuda: any
\* state whose lock the caller's compare-and-swap takes (0 -> 1); a caller
\* that finds none spins.  OpenMP: the state of the calling thread.
Acquirable(l) ==
    IF backend = "Cuda"
    THEN {x \in States : pools[cur_pool].lock[x] = 0}
    ELSE {l - 1}

LockAfterAcquire(lk, x) ==
    IF backend = "Cuda" THEN [lk EXCEPT ![x] = 1] ELSE lk

\* Mutation: the loop stops one iteration early.
LoopTestShort(k, n) == k < n - 1

\* Line 78: the loop's test k < samples.
LoopTest(k, n) == k < n

\* Mutations: the row index is off by one (cyclically); every work item
\* writes row 0.
TargetShifted(i, k) == <<(i + 1) % size, k>>
TargetRowZero(i, k) == <<0, k>>

\* Line 78: the cell vals(i, k) the loop assigns.
Target(i, k) == <<i, k>>

\* Lines 71-73: operator()(i) starts on a lane and executes
\* rand_gen = rand_pool.get_state(); rand_gen is a copy of the state
\* together with its index.
GetState(i) ==
    /\ i \in DOMAIN items
    /\ items[i].pc = "pending"
    /\ \E l \in LanesFor(i) : \E x \in Acquirable(l) :
        /\ pools' = [pools EXCEPT ![cur_pool].lock =
                        LockAfterAcquire(pools[cur_pool].lock, x)]
        /\ items' = [items EXCEPT
                        ![i].pc = "loop",
                        ![i].lane = l, ![i].k = 0, ![i].idx = x,
                        ![i].s = pools[cur_pool].st[x],
                        ![i].got = x, ![i].nacq = @ + 1]
    /\ UNCHANGED <<argc, args, backend, pc, runtime, out, hist, size,
                   samples, vals, vals_life, wi, cur_pool, wlog, timer,
                   time_64, time_1024, first_vals>>

\* Line 78: for (k = 0; k < samples; k++) vals(i, k) = rand_gen.normal();
\* the loop from k on, on the view v, the write log w and the generator
\* state s.  The loop touches only rand_gen, which is private to the work
\* item, and the cells it assigns.
RECURSIVE DrawLoop(_, _, _, _, _)
DrawLoop(i, k, s, v, w) ==
    IF LoopTest(k, samples)
    THEN LET r == normal(cur_pool, s)
             c == Target(i, k)
         IN  DrawLoop(i, k + 1, r.s, [v EXCEPT ![c] = r.val],
                      [w EXCEPT ![c] = @ \cup {i}])
    ELSE [k |-> k, s |-> s, v |-> v, w |-> w]

\* Mutation: the loop starts only once every index of [0, size) has been
\* picked up (a collective step among the work items).
DrawCollective(i) ==
    /\ i \in DOMAIN items
    /\ items[i].pc = "loop"
    /\ \A j \in Rows : j \in DOMAIN items /\ items[j].pc # "pending"
    /\ LET d == DrawLoop(i, 0, items[i].s, vals, wlog)
       IN  /\ vals' = d.v
           /\ wlog' = d.w
           /\ items' = [items EXCEPT ![i].s = d.s, ![i].k = d.k,
                                     ![i].pc = "free_state"]
    /\ UNCHANGED <<argc, args, backend, pc, runtime, out, hist, size,
                   samples, pools, vals_life, wi, cur_pool, timer, time_64,
                   time_1024, first_vals>>

Draw(i) ==
    /\ i \in DOMAIN items
    /\ items[i].pc = "loop"
    /\ LET d == DrawLoop(i, 0, items[i].s, vals, wlog)
       IN  /\ vals' = d.v
           /\ wlog' = d.w
           /\ items' = [items EXCEPT ![i].s = d.s, ![i].k = d.k,
                                     ![i].pc = "free_state"]
    /\ UNCHANGED <<argc, args, backend, pc, runtime, out, hist, size,
                   samples, pools, vals_life, wi, cur_pool, timer, time_64,
                   time_1024, first_vals>>

\* Mutation: free_state is handed the neighbouring state.
ReleasedNeighbour(i) == (items[i].idx + 1) % PoolSize

\* The state index free_state(rand_gen) writes back and unlocks.
Released(i) == items[i].idx

\* Mutation: operator() returns without calling free_state.
FreeStateSkipped(i) ==
    /\ i \in DOMAIN items
    /\ items[i].pc = "free_state"
    /\ items' = [items EXCEPT ![i].pc = "done", ![i].k = 0, ![i].s = 0,
                              ![i].lane = 0, ![i].idx = 0, ![i].got = 0]
    /\ UNCHANGED <<argc, args, backend, pc, runtime, out, hist, size,
                   samples, pools, vals, vals_life, wi, cur_pool, wlog,
                   timer, time_64, time_1024, first_vals>>

\* Mutation: the state is stored back but its lock is never cleared.
FreeStateKeepsLock(i) ==
    /\ i \in DOMAIN items
    /\ items[i].pc = "free_state"
    /\ pools' = [pools EXCEPT ![cur_pool].st[items[i].idx] = items[i].s]
    /\ items' = [items EXCEPT ![i].pc = "done", ![i].k = 0, ![i].s = 0,
                              ![i].lane = 0, ![i].idx = 0, ![i].got = 0,
                              ![i].nrel = @ + 1]
    /\ UNCHANGED <<argc, args, backend, pc, runtime, out, hist, size,
                   samples, vals, vals_life, wi, cur_pool, wlog, timer,
                   time_64, time_1024, first_vals>>

\* Mutation: the state is always given back to the first pool.
FreeStateFirstPool(i) ==
    /\ i \in DOMAIN items
    /\ items[i].pc = "free_state"
    /\ LET x == items[i].idx
       IN  /\ pools' = [pools EXCEPT !["pool64"].st[x] = items[i].s,
                                     !["pool64"].lock[x] = 0]
           /\ items' = [items EXCEPT
                           ![i].pc = "done", ![i].k = 0, ![i].s = 0,
                           ![i].lane = 0, ![i].idx = 0, ![i].got = 0,
                           ![i].nrel = @ + 1]
    /\ UNCHANGED <<argc, args, backend, pc, runtime, out, hist, size,
                   samples, vals, vals_life, wi, cur_pool, wlog, timer,
                   time_64, time_1024, first_vals>>

\* Lines 81-82: rand_pool.free_state(rand_gen) stores the generator's
\* state back at its index and clears the lock; operator() returns and
\* rand_gen goes out of scope.
FreeState(i) ==
    /\ i \in DOMAIN items
    /\ items[i].pc = "free_state"
    /\ LET x == Released(i)
       IN  /\ pools' = [pools EXCEPT ![cur_pool].st[x] = items[i].s,
                                     ![cur_pool].lock[x] = 0]
           /\ items' = [items EXCEPT
                           ![i].pc = "done", ![i].k = 0, ![i].s = 0,
                           ![i].lane = 0, ![i].idx = 0, ![i].got = 0,
                           ![i].nrel = @ + 1,
                           ![i].same = (x = items[i].got)]
    /\ UNCHANGED <<argc, args, backend, pc, runtime, out, hist, size,
                   samples, vals, vals_life, wi, cur_pool, wlog, timer,
                   time_64, time_1024, first_vals>>

MainStep ==
    \/ Initialize
    \/ CheckArgc
    \/ PrintExecSpace
    \/ ParseArgs
    \/ MakePool
    \/ AllocVals
    \/ TimerCtor
    \/ WarmLoop
    \/ Launch
    \/ Fence
    \/ TimerReset
    \/ TimerRead
    \/ PrintTimes
    \/ ScopeEnd
    \/ Finalize

ItemStep(i) ==
    \/ GetState(i)
    \/ Draw(i)
    \/ FreeState(i)

Next ==
    \/ MainStep
    \/ \E i \in DOMAIN items : ItemStep(i)

Spec == Init /\ [][Next]_vars

\* Fair scheduling: main keeps running, and every work item that can take
\* a step eventually takes one.
FairSpec ==
    /\ Spec
    /\ WF_vars(MainStep)
    /\ \A i \in 0..MaxSize : WF_vars(ItemStep(i))

\* ------------------------------------------------------ one fill, alone
\* One parallel_for of the functor followed by a fence, on a view and pools
\* constructed as main constructs them, with either pool and up to two
\* indices per thread or lane.
FillSizes == 0..(NumLanes + 1)

FillInit ==
    /\ argc = ArgcWanted
    /\ args = <<>>
    /\ backend \in Backends
    /\ pc = "fill1"
    /\ runtime = "initialized"
    /\ out = <<>>
    /\ hist = <<>>
    /\ size \in FillSizes
    /\ samples \in 0..MaxSamples
    /\ pools = [p \in Pools |-> NewPool(Seed)]
    /\ vals = [c \in Cells |-> 0]
    /\ vals_life = "live"
    /\ wi = 0
    /\ cur_pool \in Pools
    /\ items = <<>>
    /\ wlog = <<>>
    /\ timer = 0
    /\ time_64 = NoTime
    /\ time_1024 = NoTime
    /\ first_vals = <<>>

FillLaunch ==
    /\ pc \in {"fill1", "fill2"}
    /\ StartFill(cur_pool)
    /\ EmitPool("launch", cur_pool)
    /\ pc' = IF pc = "fill1" THEN "fence1" ELSE "fence2"
    /\ UNCHANGED <<argc, args, backend, runtime, out, size, samples, pools,
                   vals, vals_life, wi, timer, time_64, time_1024,
                   first_vals>>

FillFence ==
    /\ pc = "fence1"
    /\ FenceReturns
    /\ Emit("fence")
    /\ pc' = "filled"
    /\ UNCHANGED <<argc, args, backend, runtime, out, size, samples, pools,
                   vals, vals_life, wi, cur_pool, items, wlog, timer,
                   time_64, time_1024, first_vals>>

FillMain ==
    \/ FillLaunch
    \/ FillFence

FillNext ==
    \/ FillMain
    \/ \E i \in DOMAIN items : ItemStep(i)

FillSpec ==
    /\ FillInit
    /\ [][FillNext]_vars
    /\ WF_vars(FillMain)
    /\ \A i \in FillSizes : WF_vars(ItemStep(i))

\* ------------------------------------------------ the fill, invoked twice
\* The determinism scenario: with the static partition, the fill is invoked
\* on a pool freshly constructed from the seed, its output is kept, and the
\* fill is invoked again on a view and a pool constructed afresh from the
\* same seed.
DetInit ==
    /\ FillInit
    /\ backend = "OpenMP"

FillAgain ==
    /\ pc = "fence1"
    /\ FenceReturns
    /\ Emit("fence")
    /\ first_vals' = vals
    /\ vals' = [c \in Cells |-> 0]
    /\ pools' = [p \in Pools |-> NewPool(Seed)]
    /\ pc' = "fill2"
    /\ UNCHANGED <<argc, args, backend, runtime, out, size, samples,
                   vals_life, wi, cur_pool, items, wlog, timer, time_64,
                   time_1024>>

FillCompare ==
    /\ pc = "fence2"
    /\ FenceReturns
    /\ Emit("fence")
    /\ pc' = "compared"
    /\ UNCHANGED <<argc, args, backend, runtime, out, size, samples, pools,
                   vals, vals_life, wi, cur_pool, items, wlog, timer,
                   time_64, time_1024, first_vals>>

DetNext ==
    \/ FillLaunch
    \/ FillAgain
    \/ FillCompare
    \/ \E i \in DOMAIN items : ItemStep(i)

DetSpec == DetInit /\ [][DetNext]_vars

\* ----------------------------------------------------------- properties
Ended == pc \in {"L140", "terminate"}

\* The whole program ends under fair scheduling.
Termination == <>Ended

Holding(i) == i \in DOMAIN items /\ items[i].pc \in {"loop", "free_state"}
AllUnlocked == \A p \in Pools : \A x \in States : pools[p].lock[x] = 0
FenceJustReturned == hist # <<>> /\ hist[Len(hist)].ev = "fence"
LaunchAt(n) == hist[n].ev = "launch"
LaunchPositions == {n \in 1..Len(hist) : LaunchAt(n)}

\* C1: between a work item's get_state and its free_state no other work
\* item holds the same generator state: any two work items that hold a
\* state at the same time hold different states of the pool.
C1_StateHeldByOne ==
    \A i, j \in DOMAIN items :
        (i # j /\ Holding(i) /\ Holding(j)) => items[i].idx # items[j].idx

\* Two lanes hold states at once while a third work item waits for a lane.
C1_Witness ==
    /\ backend = "Cuda"
    /\ \E i, j, m \in DOMAIN items :
        /\ i # j /\ Holding(i) /\ Holding(j)
        /\ items[m].pc = "pending"

\* C2: a work item that has completed has called get_state once and
\* free_state once, on the state it acquired; one that has not completed
\* has acquired at most one state and released none; and when a fence has
\* just returned no state of either pool is locked or held.
C2_AcquireReleasePaired ==
    /\ \A i \in DOMAIN items :
        IF items[i].pc = "done"
        THEN items[i].nacq = 1 /\ items[i].nrel = 1 /\ items[i].same
        ELSE /\ items[i].nrel = 0
             /\ items[i].nacq = (IF Holding(i) THEN 1 ELSE 0)
    /\ FenceJustReturned =>
        /\ AllUnlocked
        /\ \A i \in DOMAIN items : ~Holding(i)

\* A fence has returned after a fill of two rows and no samples on Cuda.
C2_Witness ==
    /\ FenceJustReturned
    /\ backend = "Cuda"
    /\ samples = 0
    /\ size = 2
    /\ \A i \in DOMAIN items : items[i].pc = "done" /\ items[i].nacq = 1

\* C3: during a fill the cell (r, k) is written by no work item other than
\* the one for index r, so no cell has two writers, and only cells of the
\* view are written.
C3_DisjointRows ==
    /\ DOMAIN wlog \subseteq Cells
    /\ \A c \in DOMAIN wlog : wlog[c] \subseteq {c[1]}

\* Two work items are in flight and each has written its own row.
C3_Witness ==
    /\ size = 2 /\ samples = 1
    /\ DOMAIN wlog = Cells
    /\ wlog[<<0, 0>>] = {0} /\ wlog[<<1, 0>>] = {1}
    /\ Holding(0) /\ Holding(1)

\* C4: when main is about to launch a fill or to read the timer, every
\* work item of the fills launched so far has completed, and every launch
\* main has made is followed at once by a fence.
C4_FenceAfterEveryLaunch ==
    /\ pc \in (LaunchLines \cup ReadLines) => FenceReturns
    /\ \A n \in LaunchPositions : n < Len(hist) => hist[n + 1].ev = "fence"
    /\ \A n \in LaunchPositions :
          n = Len(hist) => pc \in FenceLines

\* Main reads the timer after a fill of two rows.
C4_Witness ==
    /\ pc = "L119"
    /\ size = 2 /\ samples = 1
    /\ DOMAIN items = 0..1

\* C5: with rows > 0 and samples > 0, when the fence of a fill has returned
\* the view has rows * samples cells and that fill has written every one.
C5_EveryCellWritten ==
    (FenceJustReturned /\ size > 0 /\ samples > 0) =>
        /\ DOMAIN vals = Cells
        /\ DOMAIN wlog = Cells
        /\ Cardinality(Cells) = size * samples
        /\ \A c \in Cells : wlog[c] # {}

\* The fence of the last timed fill of two rows of one sample has returned.
C5_Witness ==
    /\ FenceJustReturned
    /\ pc = "L132"
    /\ size = 2 /\ samples = 1

\* C6: with an argument count other than three, nothing but the usage
\* message is printed, no view is allocated, no pool is constructed, no
\* fill is launched, and main runs from the test straight to finalize and
\* return.
C6_WrongArgcOnlyUsage ==
    argc # ArgcWanted =>
        /\ pc \in {"L86", "L87", "L139", "L140"}
        /\ out = (IF pc \in {"L86", "L87"} THEN <<>> ELSE <<"usage">>)
        /\ vals_life = "none"
        /\ \A p \in Pools : ~pools[p].made
        /\ \A n \in 1..Len(hist) : hist[n].ev \in {"initialize", "finalize"}
        /\ items = <<>>
        /\ pc = "L140" => runtime = "finalized"

\* Main has returned after being given three arguments.
C6_Witness ==
    /\ argc = 4
    /\ pc = "L140"
    /\ out = <<"usage">>

\* The launch at position n of hist lies inside a measured interval: after
\* the (re)start and before the read of the timer that yielded a time.
Timed(n) ==
    \E t \in {time_64, time_1024} : t.set /\ t.from < n /\ n < t.to

\* The launch at position n is main's Rank(n)-th launch.
Rank(n) == Cardinality({m \in LaunchPositions : m <= n})
AfterFills == {"L134", "L135", "L138", "L139", "L140"}
Computed == argc = ArgcWanted /\ pc \in AfterFills

\* C7: the runtime is initialized before main does anything else, and
\* whenever the program has ended, on any path, the runtime has been
\* finalized.
C7_FinalizeOnEveryExit ==
    /\ runtime = "none" => pc = "L86"
    /\ Ended => runtime = "finalized"

\* C8 as claimed: once all fills are done, the untimed launches are the
\* five warm-ups, all with the first pool, each pool has exactly one timed
\* launch, and the second pool is used by exactly one launch.
C8_SecondPoolLaunchedOnce ==
    Computed =>
        /\ \A n \in LaunchPositions : ~Timed(n) => hist[n].pool = "pool64"
        /\ Cardinality({n \in LaunchPositions : ~Timed(n)}) = WarmUps
        /\ \A p \in Pools :
            Cardinality({n \in LaunchPositions :
                            Timed(n) /\ hist[n].pool = p}) = 1
        /\ Cardinality({n \in LaunchPositions :
                            hist[n].pool = "pool1024"}) = 1

\* C8 as amended: once all fills are done, main has launched five untimed
\* fills with the first pool, then one timed fill with the first pool, then
\* one untimed fill with the second pool, then one timed fill with the
\* second pool, and nothing else.
C8_LaunchSequence ==
    Computed =>
        /\ Cardinality(LaunchPositions) = WarmUps + 3
        /\ \A n \in LaunchPositions :
            /\ hist[n].pool = (IF Rank(n) <= WarmUps + 1 THEN "pool64"
                               ELSE "pool1024")
            /\ Timed(n) <=> Rank(n) \in {WarmUps + 1, WarmUps + 3}

\* Main has returned after filling two rows of one sample eight times.
C8_Witness ==
    /\ pc = "L140"
    /\ argc = ArgcWanted
    /\ size = 2 /\ samples = 1
    /\ time_64.set /\ time_1024.set

\* C9: with the static partition and the same seed, the second invocation
\* of the fill leaves in the view exactly what the first one left.
C9_SameOutputTwice ==
    (backend = "OpenMP" /\ pc = "compared") => vals = first_vals

\* Both invocations are done, every thread had work, one thread had two
\* indices, and the output is not the view's initial content.
C9_Witness ==
    /\ backend = "OpenMP"
    /\ pc = "compared"
    /\ size = NumLanes + 1
    /\ samples = MaxSamples
    /\ \E c \in Cells : vals[c] # 0

\* A pending work item that a thread or lane could pick up finds a state
\* of the pool to acquire.
NoSpin ==
    \A i \in DOMAIN items :
        (items[i].pc = "pending" /\ LanesFor(i) # {}) =>
            \E l \in LanesFor(i) : Acquirable(l) \cap States # {}

\* C10: with a pool of as many states as lanes and fair scheduling, no
\* work item that is being run waits for a state, and every launched fill
\* completes: its fence returns.
C10_NoStarvation == []NoSpin /\ <>(pc = "filled")

\* A fill with more work items than lanes has completed on Cuda.
C10_Witness ==
    /\ pc = "filled"
    /\ backend = "Cuda"
    /\ size = NumLanes + 1
    /\ \A i \in DOMAIN items : items[i].pc = "done"

\* ------------------------------------- the functor on a subset of indices
\* operator() is invoked for the indices of an arbitrary subset of
\* [0, size), in whatever order the threads or lanes pick them up; the
\* view's content at that moment is kept in first_vals.
SubLaunch ==
    /\ pc = "fill1"
    /\ \E sub \in SUBSET Rows : items' = [i \in sub |-> NoItem]
    /\ wlog' = [c \in Cells |-> {}]
    /\ first_vals' = vals
    /\ EmitPool("launch", cur_pool)
    /\ pc' = "fence1"
    /\ UNCHANGED <<argc, args, backend, runtime, out, size, samples, pools,
                   vals, vals_life, wi, cur_pool, timer, time_64, time_1024>>

SubNext ==
    \/ SubLaunch
    \/ FillFence
    \/ \E i \in DOMAIN items : ItemStep(i)

SubSpec == FillInit /\ [][SubNext]_vars

\* C11: a work item that has started can always take its next step,
\* whatever the other work items have or have not done, and once the
\* invoked work items have all finished each cell of an invoked row has
\* been written by that row's work item while every other row has no
\* writer and the content it had before.
C11_AnySubsetAnyOrder ==
    /\ \A i \in DOMAIN items : Holding(i) => ENABLED ItemStep(i)
    /\ pc = "filled" =>
        \A c \in Cells :
            IF c[1] \in DOMAIN items
            THEN wlog[c] = {c[1]}
            ELSE wlog[c] = {} /\ vals[c] = first_vals[c]

\* The functor has run for the first and the last index only, on Cuda.
C11_Witness ==
    /\ pc = "filled"
    /\ backend = "Cuda"
    /\ size = NumLanes + 1
    /\ samples = MaxSamples
    /\ DOMAIN items = {0, NumLanes}
    /\ \A i \in DOMAIN items : items[i].pc = "done"

\* Both arguments convert: main takes the computing path to its end.
Parseable ==
    /\ argc = ArgcWanted
    /\ stoi(args[1]).ok
    /\ stoi(args[2]).ok

ThreeLines == <<"exec_space", "time_64", "time_1024">>
FenceCount == Cardinality({n \in 1..Len(hist) : hist[n].ev = "fence"})

\* C12: with two arguments that convert, standard output is at every
\* moment a prefix of the three lines backend name, "Time 64", "Time 1024",
\* it is all three when main returns, and no timing line is written before
\* all eight fills have been launched and fenced.
C12_ThreeLinesAfterAllFills ==
    Parseable =>
        /\ Len(out) <= Len(ThreeLines)
        /\ out = SubSeq(ThreeLines, 1, Len(out))
        /\ pc = "L140" => out = ThreeLines
        /\ Len(out) >= 2 =>
            /\ Cardinality(LaunchPositions) = WarmUps + 3
            /\ FenceCount = WarmUps + 3
            /\ FenceReturns

\* Main has returned after printing the three lines for two rows.
C12_Witness ==
    /\ Parseable
    /\ pc = "L140"
    /\ out = ThreeLines
    /\ size = 2

\* The calls main made strictly between the timer's (re)start and the read
\* that yielded the time t.
Inside(t) == {n \in 1..Len(hist) : t.from < n /\ n < t.to}

\* The time t covers one fill of pool p, main's r-th launch: the timer was
\* reset, then that fill was launched and fenced, then the timer was read.
CoversOneFill(t, p, r) ==
    /\ hist[t.from].ev = "reset"
    /\ hist[t.to].ev = "read"
    /\ Inside(t) = {t.from + 1, t.from + 2}
    /\ hist[t.from + 1] = Event("launch", p)
    /\ Rank(t.from + 1) = r
    /\ hist[t.from + 2].ev = "fence"

\* C13: time_64 covers exactly the one fill of the first pool that follows
\* the warm-ups, and time_1024 exactly the second fill of the second pool:
\* no warm-up and no fill of the other pool lies in either interval.
C13_TimeCoversOneFill ==
    /\ time_64.set => CoversOneFill(time_64, "pool64", WarmUps + 1)
    /\ time_1024.set => CoversOneFill(time_1024, "pool1024", WarmUps + 3)

\* Both times have been read after fills of two rows.
C13_Witness ==
    /\ time_64.set /\ time_1024.set
    /\ pc = "L134"
    /\ size = 2 /\ samples = 1

\* A step of a work item: main makes no call and a work item moves.
WorkItemStep == hist' = hist /\ items' # items

\* C14: a step of a work item leaves every state and lock of the pool its
\* fill was not launched with as it was, and changes nothing but the work
\* items, the pool in use, the view and its write log.
C14_OtherPoolUntouched ==
    [][WorkItemStep =>
            /\ \A p \in Pools : p # cur_pool => pools'[p] = pools[p]
            /\ UNCHANGED <<argc, args, backend, pc, runtime, out, size,
                           samples, vals_life, wi, cur_pool, timer, time_64,
                           time_1024, first_vals>>]_vars

\* A work item of the last fill has given its state back to the second
\* pool while the first pool is still alive.
C14_Witness ==
    /\ pc = "L131"
    /\ cur_pool = "pool1024"
    /\ pools["pool64"].made
    /\ size = 2 /\ samples = 1
    /\ items[0].pc = "done" /\ Holding(1)

\* The calls that need a live runtime, and the resources that do.
RuntimeCalls == {"construct", "allocate", "timer_start", "launch", "fence",
                 "reset", "read", "destroy"}
ResourcesLive ==
    \/ vals_life = "live"
    \/ \E p \in Pools : pools[p].made
    \/ \E i \in DOMAIN items : items[i].pc # "done"

\* C15: the view, the pools and the work items exist only while the
\* runtime is initialized: every construction, allocation, launch, fence
\* and destruction main makes comes after initialize and before finalize,
\* and once the runtime is finalized the view and both pools are gone and
\* no work item is unfinished.
C15_LifetimesInsideRuntime ==
    /\ ResourcesLive => runtime = "initialized"
    /\ \A n \in 1..Len(hist) :
        hist[n].ev \in RuntimeCalls =>
            /\ \E m \in 1..(n - 1) : hist[m].ev = "initialize"
            /\ \A m \in 1..n : hist[m].ev # "finalize"
    /\ runtime = "finalized" =>
        /\ pc = "L140"
        /\ hist[Len(hist)].ev = "finalize"
        /\ ~ResourcesLive
        /\ vals_life # "none" =>
            \E n \in 1..Len(hist) : hist[n].ev = "destroy"

\* Main has returned after the view and the pools were destroyed and the
\* runtime finalized.
C15_Witness ==
    /\ pc = "L140"
    /\ runtime = "finalized"
    /\ vals_life = "destroyed"
    /\ size = 2 /\ samples = 1
====
